---- MODULE Spec2Model ----
(***************************************************************************)
(* The self-edit pipeline of Aurion v1 (src/server.js, lines 422-908):     *)
(* the patch engine (applyJsonPatch), the backup manager (writeWithBackup),*)
(* the write fence (assertAllowed) and the lifecycle handlers              *)
(* POST /selfedit/propose | validate | approve | rollback and              *)
(* GET /selfedit/list.                                                     *)
(*                                                                         *)
(* Text is a sequence of one-character strings.  A target is the sequence  *)
(* of the segments of the patch's relative path ("addons/x.txt" is         *)
(* <<"addons", "x.txt">>), a file is named by the normalised segments that *)
(* path.join(process.cwd(), target) resolves to.  A handler runs           *)
(* atomically between two of its awaits (Node runs one callback at a       *)
(* time), so each handler is one action per synchronous stretch.           *)
(*                                                                         *)
(* Left out of the records: stdout/stderr of the commands and the ranAt,   *)
(* appliedAt and at timestamps; storeMemory's log lines.  runCmd's result  *)
(* is an input of the step that resumes after it.                          *)
(***************************************************************************)
EXTENDS Integers, Sequences, FiniteSets, TLC

VARIABLES files, backupFiles, store, clock, calls, last, approved, nops,
          overlap

vars == <<files, backupFiles, store, clock, calls, last, approved, nops, overlap>>

(***************************************************************************)
(* Bounds of the model.                                                    *)
(***************************************************************************)
MaxPatches == 2
MaxLongPatches == 3
MaxTests == 2
MaxProposals == 1
MaxOps == 4
MaxInflight == 2
MaxListed == 4
MaxStamp == 3

(***************************************************************************)
(* Strings.                                                                *)
(***************************************************************************)
NL == "\n"

\* s.startsWith(p) at offset i (0-based), as String.prototype.indexOf tests it
MatchAt(s, sub, i) ==
  /\ i + Len(sub) <= Len(s)
  /\ \A k \in 1..Len(sub) : s[i + k] = sub[k]

\* String.prototype.indexOf: the first 0-based offset of sub in s, or -1
indexOf(s, sub) ==
  IF \E i \in 0..Len(s) : MatchAt(s, sub, i)
  THEN CHOOSE i \in 0..Len(s) :
         /\ MatchAt(s, sub, i)
         /\ \A j \in 0..(i - 1) : ~MatchAt(s, sub, j)
  ELSE -1

\* String.prototype.slice(from, to) with 0 <= from <= to <= length
slice(s, from, to) == SubSeq(s, from + 1, to)

RECURSIVE Substitution(_, _, _, _)
\* GetSubstitution of String.prototype.replace for a string pattern: in the
\* replacement "$$" stands for "$", "$&" for the matched text, "$`" for the
\* text before the match and "$'" for the text after it
Substitution(repl, matched, before, after) ==
  IF repl = <<>> THEN <<>>
  ELSE IF repl[1] = "$" /\ Len(repl) >= 2 /\ repl[2] \in {"$", "&", "`", "'"}
  THEN (CASE repl[2] = "$" -> <<"$">>
          [] repl[2] = "&" -> matched
          [] repl[2] = "`" -> before
          [] repl[2] = "'" -> after)
       \o Substitution(SubSeq(repl, 3, Len(repl)), matched, before, after)
  ELSE <<repl[1]>> \o Substitution(Tail(repl), matched, before, after)

\* String.prototype.replace(find, repl) with a string pattern: the first
\* occurrence only
replaceFirst(s, find, repl) ==
  LET idx == indexOf(s, find) IN
  IF idx = -1 THEN s
  ELSE LET before == slice(s, 0, idx)
           after == slice(s, idx + Len(find), Len(s))
       IN before \o Substitution(repl, find, before, after) \o after

RECURSIVE Reverse(_)
\* Array.prototype.reverse
Reverse(s) == IF s = <<>> THEN <<>> ELSE Append(Reverse(Tail(s)), Head(s))

(***************************************************************************)
(* Paths.                                                                  *)
(***************************************************************************)
RECURSIVE NormalizeFrom(_, _)
\* path.join's normalisation: "." and empty segments vanish, ".." removes
\* the segment before it (and stays when there is none to remove)
NormalizeFrom(acc, segs) ==
  IF segs = <<>> THEN acc
  ELSE LET h == Head(segs) IN
       IF h = "." \/ h = "" THEN NormalizeFrom(acc, Tail(segs))
       ELSE IF h = ".." /\ acc # <<>> /\ acc[Len(acc)] # ".."
            THEN NormalizeFrom(SubSeq(acc, 1, Len(acc) - 1), Tail(segs))
            ELSE NormalizeFrom(Append(acc, h), Tail(segs))

\* path.join(process.cwd(), target), named relative to process.cwd()
AbsOf(target) == NormalizeFrom(<<>>, target)

\* the allow-listed tree: what the write fence is meant to contain
UnderAddons(p) == Len(p) >= 2 /\ p[1] = "addons"

CoreJson == <<"core.json">>

\* PATCH_ALLOW = ['addons/']: the prefixes, as leading directory segments
PATCH_ALLOW == {<<"addons">>}

\* target === p || target.startsWith(p) for a prefix p that ends with "/"
startsWith(target, p) ==
  /\ Len(target) > Len(p)
  /\ SubSeq(target, 1, Len(p)) = p

\* assertAllowed: TRUE when it returns, FALSE when it throws
assertAllowed(target) ==
  \/ target = CoreJson
  \/ \E p \in PATCH_ALLOW : startsWith(target, p)

(***************************************************************************)
(* The universe of the model: targets, patches, proposals.                 *)
(***************************************************************************)
T_x == <<"addons", "x.txt">>
T_new == <<"addons", "new.txt">>
T_srv == <<"server.js">>
T_esc == <<"addons", "..", "server.js">>

Targets == {T_x, T_new, T_srv, T_esc}

FilePaths == {AbsOf(t) : t \in Targets}

Patch(t, a, sn, an, fi, re) ==
  [target |-> t, action |-> a, snippet |-> sn, anchor |-> an,
   find |-> fi, replace |-> re]

\* the patches a generated proposal is made of
PatchCatalogue ==
  { Patch(T_x, "append", <<"c">>, <<>>, <<>>, <<>>),
    Patch(T_x, "replace", <<>>, <<>>, <<"a">>, <<"c">>),
    Patch(T_x, "replace", <<>>, <<>>, <<"z">>, <<"c">>),
    Patch(T_x, "insertAfter", <<"c">>, <<"a">>, <<>>, <<>>),
    Patch(T_x, "delete", <<>>, <<>>, <<>>, <<>>),
    Patch(T_new, "create", <<"c">>, <<>>, <<>>, <<>>),
    Patch(T_new, "append", <<"c">>, <<>>, <<>>, <<>>),
    Patch(T_srv, "append", <<"c">>, <<>>, <<>>, <<>>),
    Patch(T_esc, "append", <<"c">>, <<>>, <<>>, <<>>) }

\* the patches the longer proposals are made of: two that back up and
\* overwrite addons/x.txt, one that the write fence refuses
CorePatches ==
  { Patch(T_x, "append", <<"c">>, <<>>, <<>>, <<>>),
    Patch(T_x, "replace", <<>>, <<>>, <<"a">>, <<"c">>),
    Patch(T_srv, "append", <<"c">>, <<>>, <<>>, <<>>) }

SeqsUpTo(S, n) == UNION { [1..k -> S] : k \in 0..n }

\* proposal.patches: up to MaxPatches patches of the catalogue, or up to
\* MaxLongPatches core patches
PatchLists ==
  (SeqsUpTo(PatchCatalogue, MaxPatches) \cup SeqsUpTo(CorePatches, MaxLongPatches))
    \ {<<>>}

\* the proposals of the specifications that interleave handlers or inject
\* faults: up to MaxPatches core patches
ShortLists == SeqsUpTo(CorePatches, MaxPatches) \ {<<>>}

\* a proposal's tests: step i stands for {cmd, description} number i
TestLists == { [i \in 1..k |-> i] : k \in 0..MaxTests }

\* the built-in step { cmd: 'npm run build', description: 'Build should pass' }
BuildStep == 0

\* an entry of proposal.tests without a cmd string (the proposal is parsed
\* from the model's JSON and only its patches are validated): exec(undefined)
\* throws ERR_INVALID_ARG_TYPE inside runCmd's promise executor
BadStep == -1

FaultTestLists == TestLists \cup {<<BadStep>>, <<1, BadStep>>}

InitFiles ==
  [p \in FilePaths |->
     IF p = AbsOf(T_x) THEN [ex |-> TRUE, data |-> <<"a", "b">>]
     ELSE IF p = AbsOf(T_srv) THEN [ex |-> TRUE, data |-> <<"s">>]
     ELSE [ex |-> FALSE, data |-> <<>>]]

(***************************************************************************)
(* Backup manager and patch engine.  fs is the target files, bk the files  *)
(* of BACKUPS_DIR, now the value new Date() returns (milliseconds).        *)
(***************************************************************************)
\* path.join(BACKUPS_DIR, rel + `.backup.${stamp}`)
BackupPath(abs, now) == [rel |-> abs, stamp |-> now]

\* applyJsonPatch's backupPath: null
NoBackup == [rel |-> <<>>, stamp |-> -1]

\* the copy left out
CopyToBackup_Skipped(bk, key, data) == bk

\* fs.copyFileSync(src, dst) into BACKUPS_DIR: creates or overwrites dst
CopyToBackup(bk, key, data) == (key :> data) @@ bk

\* fs.writeFileSync(abs, data) / fs.copyFileSync(backup, abs)
WriteFile(fs, abs, data) == [fs EXCEPT ![abs] = [ex |-> TRUE, data |-> data]]

writeWithBackup(fs, bk, abs, nextContent, now) ==
  LET backupPath == BackupPath(abs, now)
      bk1 == IF fs[abs].ex THEN CopyToBackup(bk, backupPath, fs[abs].data) ELSE bk
  IN [fs |-> WriteFile(fs, abs, nextContent), bk |-> bk1, backupPath |-> backupPath]

\* isValidPatch: target and action are strings ("undefined" is no string)
isValidPatch(p) == p.action # "undefined"

\* the throw comes after the copy to the backup path
Thrown_BackupFirst(fs, bk, target, err) ==
  [thrown |-> TRUE, err |-> err, fs |-> fs,
   bk |-> CopyToBackup(bk, BackupPath(AbsOf(target), 0), fs[AbsOf(target)].data),
   target |-> target, backupPath |-> NoBackup]

Thrown(fs, bk, target, err) ==
  [thrown |-> TRUE, err |-> err, fs |-> fs, bk |-> bk,
   target |-> target, backupPath |-> NoBackup]

\* every return carries a backup path
Returned_WithBackup(fs, bk, target, backupPath) ==
  [thrown |-> FALSE, err |-> "", fs |-> fs, bk |-> bk,
   target |-> target, backupPath |-> BackupPath(AbsOf(target), 0)]

Returned(fs, bk, target, backupPath) ==
  [thrown |-> FALSE, err |-> "", fs |-> fs, bk |-> bk,
   target |-> target, backupPath |-> backupPath]

applyJsonPatch(patch, fs, bk, now) ==
  LET abs == AbsOf(patch.target)
      current == fs[abs].data
  IN
  IF ~assertAllowed(patch.target)
  THEN Thrown(fs, bk, patch.target, "Path not allowed by write fence")
  ELSE IF patch.action = "create" THEN
    IF fs[abs].ex THEN Thrown(fs, bk, patch.target, "File already exists")
    ELSE Returned(WriteFile(fs, abs, patch.snippet), bk, patch.target, NoBackup)
  ELSE IF ~fs[abs].ex THEN Thrown(fs, bk, patch.target, "File not found")
  ELSE IF patch.action = "replace" THEN
    IF patch.find = <<>> THEN Thrown(fs, bk, patch.target, "replace requires find")
    ELSE LET next == replaceFirst(current, patch.find, patch.replace) IN
         IF next = current THEN Thrown(fs, bk, patch.target, "No match for find")
         ELSE LET w == writeWithBackup(fs, bk, abs, next, now)
              IN Returned(w.fs, w.bk, patch.target, w.backupPath)
  ELSE IF patch.action = "append" THEN
    LET w == writeWithBackup(fs, bk, abs, current \o <<NL>> \o patch.snippet, now)
    IN Returned(w.fs, w.bk, patch.target, w.backupPath)
  ELSE IF patch.action = "insertAfter" THEN
    LET idx == indexOf(current, patch.anchor) IN
    IF idx = -1 THEN Thrown(fs, bk, patch.target, "Anchor not found")
    ELSE LET pos == idx + Len(patch.anchor)
             next == slice(current, 0, pos) \o <<NL>> \o patch.snippet
                       \o slice(current, pos, Len(current))
             w == writeWithBackup(fs, bk, abs, next, now)
         IN Returned(w.fs, w.bk, patch.target, w.backupPath)
  ELSE Thrown(fs, bk, patch.target, "Unsupported action")

(***************************************************************************)
(* The patch loop of validate and approve:                                 *)
(*   for (const patch of record.proposal.patches) {                        *)
(*     const result = applyJsonPatch(patch);                               *)
(*     if (result.backupPath) backups.push(result); }                      *)
(* ticks[i] tells whether the millisecond clock advanced before patch i.   *)
(* The loop ends at the first patch that throws (failedAt is its index).   *)
(***************************************************************************)
LoopStart(fs, bk, now) ==
  [fs |-> fs, bk |-> bk, now |-> now, backups |-> <<>>,
   thrown |-> FALSE, err |-> "", failedAt |-> 0]

RECURSIVE PatchLoop(_, _, _, _)
PatchLoop(patches, ticks, i, st) ==
  IF i > Len(patches) THEN st
  ELSE LET now == st.now + (IF ticks[i] THEN 1 ELSE 0)
           r == applyJsonPatch(patches[i], st.fs, st.bk, now)
       IN IF r.thrown
          THEN [st EXCEPT !.now = now, !.thrown = TRUE, !.err = r.err, !.failedAt = i]
          ELSE PatchLoop(patches, ticks, i + 1,
                 [st EXCEPT !.fs = r.fs, !.bk = r.bk, !.now = now,
                            !.backups = IF r.backupPath # NoBackup
                                        THEN Append(@, [target |-> r.target,
                                                        backupPath |-> r.backupPath])
                                        ELSE @])

RECURSIVE RestoreEach(_, _, _)
\* for (const b of list) fs.copyFileSync(b.backupPath, path.join(cwd, b.target))
RestoreEach(list, fs, bk) ==
  IF list = <<>> THEN fs
  ELSE LET b == Head(list) IN
       RestoreEach(Tail(list), WriteFile(fs, AbsOf(b.target), bk[b.backupPath]), bk)

\* the revert without the reverse(): earliest backup first
RevertBackups_Forward(backups, fs, bk) == RestoreEach(backups, fs, bk)

\* validate's revert: for (const b of backups.reverse()) ...
RevertBackups(backups, fs, bk) == RestoreEach(Reverse(backups), fs, bk)

RECURSIVE RollbackRestore_Truncates(_, _, _)
\* a missing backup read as an empty file
RollbackRestore_Truncates(list, fs, bk) ==
  IF list = <<>> THEN fs
  ELSE LET b == Head(list) IN
       RollbackRestore_Truncates(Tail(list),
         WriteFile(fs, AbsOf(b.file),
                   IF b.backup \in DOMAIN bk THEN bk[b.backup] ELSE <<>>),
         bk)

\* rollback that copies nothing back
RollbackRestore_Nothing(list, fs, bk) == fs

RECURSIVE RollbackRestore(_, _, _)
\* rollback: for (const b of record.apply.backups)
\*   if (b.backup && fs.existsSync(b.backup)) fs.copyFileSync(b.backup, file)
RollbackRestore(list, fs, bk) ==
  IF list = <<>> THEN fs
  ELSE LET b == Head(list) IN
       RollbackRestore(Tail(list),
         IF b.backup \in DOMAIN bk
         THEN WriteFile(fs, AbsOf(b.file), bk[b.backup]) ELSE fs,
         bk)

(***************************************************************************)
(* The proposal store (one JSON file per id under PROPOSALS_DIR) and the   *)
(* handlers in flight.                                                     *)
(***************************************************************************)
NoValidation == [set |-> FALSE, allOk |-> FALSE, results |-> <<>>]
NoApply == [set |-> FALSE, backups |-> <<>>, buildOk |-> FALSE]
NoRollback == [set |-> FALSE, buildOk |-> FALSE]

\* propose: { id, createdAt, status: 'proposed', proposal }
NewRecord(id, now, patches, tests) ==
  [id |-> id, createdAt |-> now, status |-> "proposed",
   patches |-> patches, tests |-> tests,
   validation |-> NoValidation, apply |-> NoApply, rollback |-> NoRollback]

NoRecord == NewRecord(0, 0, <<>>, <<>>)

Slots == 1..MaxInflight

IdleCall ==
  [op |-> "idle", id |-> 0, record |-> NoRecord, backups |-> <<>>,
   steps |-> <<>>, results |-> <<>>, allOk |-> TRUE,
   preFiles |-> InitFiles, preBackups |-> <<>>, preStore |-> <<>>]

\* what the last finished request did: the handler, the id, the HTTP status of
\* the response, the number of requests taken so far, the state when the
\* handler began, the backups it took
Outcome(op, id, code, n, preFiles, preBackups, preStore, backups, failedAt, err) ==
  [op |-> op, id |-> id, code |-> code, n |-> n, preFiles |-> preFiles,
   preBackups |-> preBackups, preStore |-> preStore, backups |-> backups,
   failedAt |-> failedAt, err |-> err, items |-> <<>>]

NoOutcome ==
  [op |-> "none", id |-> 0, code |-> 0, n |-> 0, preFiles |-> InitFiles,
   preBackups |-> <<>>, preStore |-> <<>>, backups |-> <<>>,
   failedAt |-> 0, err |-> "", items |-> <<>>]

\* the last approve that answered 200: its id, the files when it began, and
\* the number of requests taken when it answered
NoApprove == [id |-> 0, n |-> 0, preFiles |-> InitFiles]

AllIdle == \A s \in Slots : calls[s].op = "idle"

\* the calls that ran while at least one handler was suspended at an await:
\* the files when the first of them began, how many they are, and whether
\* all of them are validate calls
NoOverlap == [base |-> InitFiles, count |-> 0, onlyValidate |-> TRUE]

Joined(op) ==
  IF AllIdle
  THEN [base |-> files, count |-> 1, onlyValidate |-> op = "validate"]
  ELSE [overlap EXCEPT !.count = @ + 1, !.onlyValidate = @ /\ op = "validate"]

\* a request is taken by the lowest free slot
FreeSlot(s) ==
  /\ calls[s].op = "idle"
  /\ \A t \in Slots : t < s => calls[t].op # "idle"

Init ==
  /\ files = InitFiles
  /\ backupFiles = <<>>
  /\ store = <<>>
  /\ clock = 0
  /\ calls = [s \in Slots |-> IdleCall]
  /\ last = NoOutcome
  /\ approved = NoApprove
  /\ nops = 0
  /\ overlap = NoOverlap

Ids == 1..MaxProposals

(***************************************************************************)
(* POST /selfedit/propose                                                  *)
(***************************************************************************)
\* generatePatch returned a proposal whose patches all pass isValidPatch
Propose(patches, tests, tick) ==
  /\ nops < MaxOps
  /\ Len(store) < MaxProposals
  /\ \A i \in 1..Len(patches) : isValidPatch(patches[i])
  /\ LET now == clock + (IF tick THEN 1 ELSE 0)
         id == Len(store) + 1
     IN /\ store' = Append(store, NewRecord(id, now, patches, tests))
        /\ clock' = now
        /\ last' = (Outcome("propose", id, 200, nops + 1, files, backupFiles, store, <<>>, 0, ""))
  /\ nops' = nops + 1
  /\ UNCHANGED <<files, backupFiles, calls, approved>>

\* generatePatch threw (no JSON, or a patch that fails isValidPatch)
ProposeInvalid ==
  /\ last' = (Outcome("propose", 0, 500, nops, files, backupFiles, store, <<>>, 0,
                     "Invalid patches in mirror proposal"))
  /\ UNCHANGED <<files, backupFiles, store, clock, calls, approved, nops>>

\* validate, approve or rollback with an id that has no file: 404
NotFound(op) ==
  /\ Len(store) < MaxProposals
  /\ last' = (Outcome(op, Len(store) + 1, 404, nops, files, backupFiles, store, <<>>, 0,
                     "Proposal not found"))
  /\ UNCHANGED <<files, backupFiles, store, clock, calls, approved, nops>>

(***************************************************************************)
(* POST /selfedit/validate                                                 *)
(***************************************************************************)
\* every proposal runs the built-in step, whatever its tests
stepsOf_AlwaysBuild(tests) == <<BuildStep>>

\* steps = tests?.length ? tests : [{ cmd: 'npm run build', ... }]
stepsOf(tests) == IF Len(tests) > 0 THEN tests ELSE <<BuildStep>>

\* allOk follows the step that ran last
nextAllOk_LastStep(allOk, ok) == ok

\* if (!r.ok) allOk = false
nextAllOk(allOk, ok) == allOk /\ ok

\* record.status = allOk ? 'validated' : 'failed_validation'
validationStatus(allOk) == IF allOk THEN "validated" ELSE "failed_validation"

\* up to the first await: read the record, run the patch loop; when a patch
\* throws, restore the backups latest-first and answer 422
ValidateStart(s, id, ticks) ==
  /\ nops < MaxOps
  /\ FreeSlot(s)
  /\ id \in 1..Len(store)
  /\ LET record == store[id]
         st == PatchLoop(record.patches, ticks, 1, LoopStart(files, backupFiles, clock))
     IN /\ backupFiles' = st.bk
        /\ clock' = st.now
        /\ IF st.thrown
           THEN /\ files' = RevertBackups(st.backups, st.fs, st.bk)
                /\ last' = (Outcome("validate", id, 422, nops + 1, files, backupFiles, store,
                                   st.backups, st.failedAt, st.err))
                /\ calls' = calls
           ELSE /\ files' = st.fs
                /\ calls' = [calls EXCEPT ![s] =
                     [op |-> "validate", id |-> id, record |-> record,
                      backups |-> st.backups,
                      steps |-> stepsOf(record.tests),
                      results |-> <<>>, allOk |-> TRUE,
                      preFiles |-> files, preBackups |-> backupFiles,
                      preStore |-> store]]
                /\ last' = last
  /\ nops' = nops + 1
  /\ UNCHANGED <<store, approved>>

\* runCmd of the current step resolved with ok; after the last step: revert,
\* set the status, write the record, answer 200
ValidateStep(s, ok) ==
  /\ calls[s].op = "validate"
  /\ LET c == calls[s]
         results == Append(c.results, [step |-> Head(c.steps), ok |-> ok])
         allOk == nextAllOk(c.allOk, ok)
         record == [c.record EXCEPT
                      !.status = validationStatus(allOk),
                      !.validation = [set |-> TRUE, allOk |-> allOk, results |-> results]]
     IN IF Len(c.steps) > 1
        THEN /\ calls' = [calls EXCEPT ![s].steps = Tail(c.steps),
                                       ![s].results = results,
                                       ![s].allOk = allOk]
             /\ UNCHANGED <<files, store, last>>
        ELSE /\ files' = RevertBackups(c.backups, files, backupFiles)
             /\ store' = [store EXCEPT ![c.id] = record]
             /\ last' = (Outcome("validate", c.id, 200, nops, c.preFiles, c.preBackups,
                                c.preStore, c.backups, 0, ""))
             /\ calls' = [calls EXCEPT ![s] = IdleCall]
  /\ UNCHANGED <<backupFiles, clock, approved, nops>>

\* runCmd of the current step rejected (exec threw): the handler's outer
\* catch answers 500; nothing is restored and the record is not written
ValidateStepThrows(s) ==
  /\ calls[s].op = "validate"
  /\ Head(calls[s].steps) = BadStep
  /\ LET c == calls[s] IN
     /\ last' = (Outcome("validate", c.id, 500, nops, c.preFiles, c.preBackups,
                        c.preStore, c.backups, 0, "ERR_INVALID_ARG_TYPE"))
     /\ calls' = [calls EXCEPT ![s] = IdleCall]
  /\ UNCHANGED <<files, backupFiles, store, clock, approved, nops>>

\* the first file-system call of patch k (fs.readFileSync in applyJsonPatch)
\* throws EIO after patches 1..k-1 were written: validate's inner catch
\* restores the backups latest-first and answers 422
ValidateIOError(s, id, ticks, k) ==
  /\ nops < MaxOps
  /\ FreeSlot(s)
  /\ id \in 1..Len(store)
  /\ k \in 2..Len(store[id].patches)
  /\ LET record == store[id]
         st == PatchLoop(SubSeq(record.patches, 1, k - 1), ticks, 1,
                         LoopStart(files, backupFiles, clock))
     IN /\ ~st.thrown
        /\ backupFiles' = st.bk
        /\ clock' = st.now
        /\ files' = RevertBackups(st.backups, st.fs, st.bk)
        /\ last' = (Outcome("validate", id, 422, nops + 1, files, backupFiles, store,
                           st.backups, k, "EIO"))
  /\ nops' = nops + 1
  /\ UNCHANGED <<store, calls, approved>>

(***************************************************************************)
(* POST /selfedit/approve                                                  *)
(***************************************************************************)
\* the same I/O error in approve's patch loop: the outer catch answers 500
ApproveIOError(s, id, ticks, k) ==
  /\ nops < MaxOps
  /\ FreeSlot(s)
  /\ id \in 1..Len(store)
  /\ k \in 2..Len(store[id].patches)
  /\ LET record == store[id]
         st == PatchLoop(SubSeq(record.patches, 1, k - 1), ticks, 1,
                         LoopStart(files, backupFiles, clock))
     IN /\ ~st.thrown
        /\ files' = st.fs
        /\ backupFiles' = st.bk
        /\ clock' = st.now
        /\ last' = (Outcome("approve", id, 500, nops + 1, files, backupFiles, store,
                           st.backups, k, "EIO"))
  /\ nops' = nops + 1
  /\ UNCHANGED <<store, calls, approved>>

\* up to the await: read the record, run the patch loop; a patch that throws
\* is caught by the handler's outer catch, which answers 500
ApproveStart(s, id, ticks) ==
  /\ nops < MaxOps
  /\ FreeSlot(s)
  /\ id \in 1..Len(store)
  /\ LET record == store[id]
         st == PatchLoop(record.patches, ticks, 1, LoopStart(files, backupFiles, clock))
     IN /\ files' = st.fs
        /\ backupFiles' = st.bk
        /\ clock' = st.now
        /\ IF st.thrown
           THEN /\ last' = (Outcome("approve", id, 500, nops + 1, files, backupFiles, store,
                                   st.backups, st.failedAt, st.err))
                /\ calls' = calls
           ELSE /\ calls' = [calls EXCEPT ![s] =
                     [op |-> "approve", id |-> id, record |-> record,
                      backups |-> st.backups, steps |-> <<BuildStep>>,
                      results |-> <<>>, allOk |-> TRUE,
                      preFiles |-> files, preBackups |-> backupFiles,
                      preStore |-> store]]
                /\ last' = last
  /\ nops' = nops + 1
  /\ UNCHANGED <<store, approved>>

\* record.status = buildOk ? 'applied' : 'applied_with_build_errors'
approveStatus(buildOk) == IF buildOk THEN "applied" ELSE "applied_with_build_errors"

\* the record keeps the backups without the first one
applyBackups_DropFirst(backups) ==
  [i \in 1..(Len(backups) - 1) |->
     [file |-> backups[i + 1].target, backup |-> backups[i + 1].backupPath]]

\* backups.map(b => ({ file: b.target, backup: b.backupPath }))
applyBackups(backups) ==
  [i \in 1..Len(backups) |->
     [file |-> backups[i].target, backup |-> backups[i].backupPath]]

\* runCmd('npm run build') resolved with buildOk: set the status and the
\* apply record, write the record, answer 200
ApproveFinish(s, buildOk) ==
  /\ calls[s].op = "approve"
  /\ LET c == calls[s]
         record == [c.record EXCEPT
                      !.status = approveStatus(buildOk),
                      !.apply = [set |-> TRUE, backups |-> applyBackups(c.backups),
                                 buildOk |-> buildOk]]
     IN /\ store' = [store EXCEPT ![c.id] = record]
        /\ last' = (Outcome("approve", c.id, 200, nops, c.preFiles, c.preBackups,
                           c.preStore, c.backups, 0, ""))
        /\ calls' = [calls EXCEPT ![s] = IdleCall]
  /\ approved' = [id |-> calls[s].id, n |-> nops, preFiles |-> calls[s].preFiles]
  /\ UNCHANGED <<files, backupFiles, clock, nops>>

(***************************************************************************)
(* POST /selfedit/rollback                                                 *)
(***************************************************************************)
\* the guard left out: every record is taken to carry backups
hasApplyBackups_Always(record) == record.id = record.id

\* the negation of rollback's guard !record.apply?.backups
hasApplyBackups(record) == record.apply.set

\* up to the await: 400 when the record has no apply.backups, else restore
\* every recorded backup in the order of the record
RollbackStart(s, id) ==
  /\ nops < MaxOps
  /\ FreeSlot(s)
  /\ id \in 1..Len(store)
  /\ LET record == store[id] IN
     IF ~hasApplyBackups(record)
     THEN /\ last' = (Outcome("rollback", id, 400, nops + 1, files, backupFiles, store, <<>>, 0,
                             "No backups recorded"))
          /\ UNCHANGED <<files, calls>>
     ELSE /\ files' = RollbackRestore(record.apply.backups, files, backupFiles)
          /\ calls' = [calls EXCEPT ![s] =
               [op |-> "rollback", id |-> id, record |-> record,
                backups |-> <<>>, steps |-> <<BuildStep>>,
                results |-> <<>>, allOk |-> TRUE,
                preFiles |-> files, preBackups |-> backupFiles, preStore |-> store]]
          /\ last' = last
  /\ nops' = nops + 1
  /\ UNCHANGED <<backupFiles, store, clock, approved>>

\* the record written anew, without its patch list
rolledBack_Rewritten(record, buildOk) ==
  [NewRecord(record.id, record.createdAt, <<>>, record.tests) EXCEPT
     !.status = "rolled_back",
     !.rollback = [set |-> TRUE, buildOk |-> buildOk]]

\* record.status = 'rolled_back'; record.rollback = { at, buildOk }
rolledBack(record, buildOk) ==
  [record EXCEPT !.status = "rolled_back",
                 !.rollback = [set |-> TRUE, buildOk |-> buildOk]]

\* runCmd('npm run build') resolved: status rolled_back, write, answer 200
RollbackFinish(s, buildOk) ==
  /\ calls[s].op = "rollback"
  /\ LET c == calls[s]
         record == rolledBack(c.record, buildOk)
     IN /\ store' = [store EXCEPT ![c.id] = record]
        /\ last' = (Outcome("rollback", c.id, 200, nops, c.preFiles, c.preBackups,
                           c.preStore, <<>>, 0, ""))
        /\ calls' = [calls EXCEPT ![s] = IdleCall]
  /\ UNCHANGED <<files, backupFiles, clock, approved, nops>>

(***************************************************************************)
(* GET /selfedit/list                                                      *)
(*                                                                         *)
(* createdAt is the ISO-8601 string of the millisecond clock; strings of   *)
(* that fixed width compare as the clock values do, so the model keeps the *)
(* clock value.  Array.prototype.sort on an array shorter than 64 elements *)
(* takes the longest run at the front (reversed when it descends) and      *)
(* puts each further element in place by binary insertion; it sees the     *)
(* elements only through the sign of the comparator.                       *)
(***************************************************************************)
\* the comparator with the test turned round: oldest first
compareCreatedAt_Ascending(a, b) == IF a.createdAt > b.createdAt THEN 1 ELSE -1

\* (a, b) => (a.createdAt < b.createdAt ? 1 : -1): never 0
compareCreatedAt(a, b) == IF a.createdAt < b.createdAt THEN 1 ELSE -1

RECURSIVE RunEnd(_, _, _)
\* the length of the run that starts the array: descending while each
\* element compares below the one before it, else ascending while not
RunEnd(items, descending, k) ==
  IF k >= Len(items) THEN k
  ELSE LET order == compareCreatedAt(items[k + 1], items[k]) IN
       IF descending = (order < 0) THEN RunEnd(items, descending, k + 1) ELSE k

RECURSIVE InsertPos(_, _, _, _)
\* binary search in run[left+1 .. right] for the place of pivot
InsertPos(run, pivot, left, right) ==
  IF left >= right THEN left
  ELSE LET mid == left + ((right - left) \div 2) IN
       IF compareCreatedAt(pivot, run[mid + 1]) < 0
       THEN InsertPos(run, pivot, left, mid)
       ELSE InsertPos(run, pivot, mid + 1, right)

RECURSIVE BinaryInsertionSort(_, _)
BinaryInsertionSort(run, rest) ==
  IF rest = <<>> THEN run
  ELSE LET pivot == Head(rest)
           pos == InsertPos(run, pivot, 0, Len(run))
       IN BinaryInsertionSort(
            SubSeq(run, 1, pos) \o <<pivot>> \o SubSeq(run, pos + 1, Len(run)),
            Tail(rest))

\* items.sort(comparator)
sort(items) ==
  IF Len(items) < 2 THEN items
  ELSE LET descending == compareCreatedAt(items[2], items[1]) < 0
           n == RunEnd(items, descending, 2)
           run == IF descending THEN Reverse(SubSeq(items, 1, n))
                  ELSE SubSeq(items, 1, n)
       IN BinaryInsertionSort(run, SubSeq(items, n + 1, Len(items)))

\* the orders fs.readdirSync may return the proposal files in
DirOrders(n) == { o \in [1..n -> 1..n] : \A i, j \in 1..n : o[i] = o[j] => i = j }

\* read every file in directory order, parse, sort, answer 200
List(order) ==
  /\ last' = [Outcome("list", 0, 200, nops, files, backupFiles, store, <<>>, 0, "")
               EXCEPT !.items = sort([i \in 1..Len(store) |-> store[order[i]]])]
  /\ UNCHANGED <<files, backupFiles, store, clock, calls, approved, nops>>

(***************************************************************************)
(* Requests arrive one at a time: a request is sent when the response to   *)
(* the one before it has been received.                                    *)
(***************************************************************************)
Ticks(n) == [1..n -> BOOLEAN]

\* between two requests the millisecond clock has advanced; between two
\* patches of one patch loop it may or may not have
SeqTicks(n) == { t \in Ticks(n) : n > 0 => t[1] }

PatchesOf(id) == IF id \in 1..Len(store) THEN store[id].patches ELSE <<>>

ProposeRequest ==
  /\ AllIdle
  /\ \E pl \in PatchLists, tl \in TestLists : Propose(pl, tl, TRUE)
  /\ UNCHANGED overlap

ProposeInvalidRequest == AllIdle /\ ProposeInvalid /\ UNCHANGED overlap

NotFoundRequest ==
  /\ AllIdle
  /\ \E op \in {"validate", "approve", "rollback"} : NotFound(op)
  /\ UNCHANGED overlap

ValidateRequest ==
  /\ AllIdle
  /\ \E s \in Slots, id \in Ids :
       \E ticks \in SeqTicks(Len(PatchesOf(id))) : ValidateStart(s, id, ticks)
  /\ UNCHANGED overlap

ApproveRequest ==
  /\ AllIdle
  /\ \E s \in Slots, id \in Ids :
       \E ticks \in SeqTicks(Len(PatchesOf(id))) : ApproveStart(s, id, ticks)
  /\ UNCHANGED overlap

RollbackRequest ==
  /\ AllIdle
  /\ \E s \in Slots, id \in Ids : RollbackStart(s, id)
  /\ UNCHANGED overlap

ProposeShortRequest ==
  /\ AllIdle
  /\ \E pl \in ShortLists, tl \in TestLists : Propose(pl, tl, TRUE)
  /\ UNCHANGED overlap

\* the callback of exec runs: the handler suspended at await runCmd resumes
ValidateResume ==
  (\E s \in Slots, ok \in BOOLEAN : ValidateStep(s, ok)) /\ UNCHANGED overlap

ApproveResume ==
  (\E s \in Slots, ok \in BOOLEAN : ApproveFinish(s, ok)) /\ UNCHANGED overlap

RollbackResume ==
  (\E s \in Slots, ok \in BOOLEAN : RollbackFinish(s, ok)) /\ UNCHANGED overlap

Next ==
  \/ ProposeRequest
  \/ ProposeInvalidRequest
  \/ NotFoundRequest
  \/ ValidateRequest
  \/ ValidateResume
  \/ ApproveRequest
  \/ ApproveResume
  \/ RollbackRequest
  \/ RollbackResume

Spec == Init /\ [][Next]_vars

(***************************************************************************)
(* runCmd is exec(cmd, {cwd, env}, callback) with no timeout and no kill:  *)
(* the callback runs when the command exits, and only then.  A command     *)
(* that never exits leaves its handler suspended at the await.             *)
(***************************************************************************)
CommandHangs(s) ==
  /\ calls[s].op \in {"validate", "approve", "rollback"}
  /\ calls' = [calls EXCEPT ![s].op = "hung"]
  /\ UNCHANGED <<files, backupFiles, store, clock, last, approved, nops>>

CommandNeverExits == (\E s \in Slots : CommandHangs(s)) /\ UNCHANGED overlap

NextHang ==
  \/ ProposeShortRequest
  \/ ValidateRequest
  \/ ValidateResume
  \/ ApproveRequest
  \/ ApproveResume
  \/ RollbackRequest
  \/ RollbackResume
  \/ CommandNeverExits

\* the event loop runs the callback of every command that has exited
SpecHang ==
  /\ Init /\ [][NextHang]_vars
  /\ WF_vars(ValidateResume) /\ WF_vars(ApproveResume) /\ WF_vars(RollbackResume)

(***************************************************************************)
(* Requests that arrive while a handler is suspended at await runCmd: the  *)
(* server takes every request as it comes (no lock, no queue in the        *)
(* handlers), so a second handler runs its synchronous stretch between two *)
(* stretches of the first.                                                 *)
(***************************************************************************)
ValidateOverlapping ==
  /\ \E s \in Slots, id \in Ids :
       \E ticks \in SeqTicks(Len(PatchesOf(id))) : ValidateStart(s, id, ticks)
  /\ overlap' = Joined("validate")

ApproveOverlapping ==
  /\ \E s \in Slots, id \in Ids :
       \E ticks \in SeqTicks(Len(PatchesOf(id))) : ApproveStart(s, id, ticks)
  /\ overlap' = Joined("approve")

RollbackOverlapping ==
  /\ \E s \in Slots, id \in Ids : RollbackStart(s, id)
  /\ overlap' = Joined("rollback")

NextConc ==
  \/ ProposeShortRequest
  \/ ValidateOverlapping
  \/ ValidateResume
  \/ ApproveOverlapping
  \/ ApproveResume
  \/ RollbackOverlapping
  \/ RollbackResume

SpecConc == Init /\ [][NextConc]_vars

(***************************************************************************)
(* Approve and rollback, with BACKUPS_DIR (under DISK_PATH, outside the    *)
(* repository) losing files between two requests: rollback tests           *)
(* fs.existsSync(b.backup) for every recorded backup.                      *)
(***************************************************************************)
BackupRemoved(key) ==
  /\ key \in DOMAIN backupFiles
  /\ backupFiles' = [k \in DOMAIN backupFiles \ {key} |-> backupFiles[k]]
  /\ UNCHANGED <<files, store, clock, calls, last, approved, nops>>

BackupsCleared ==
  /\ AllIdle
  /\ \E key \in DOMAIN backupFiles : BackupRemoved(key)
  /\ UNCHANGED overlap

NextCleared ==
  \/ ProposeShortRequest
  \/ ApproveRequest
  \/ ApproveResume
  \/ BackupsCleared
  \/ RollbackRequest
  \/ RollbackResume

SpecCleared == Init /\ [][NextCleared]_vars

(***************************************************************************)
(* The patch engine on its own: one patch, applied again and again to the  *)
(* files it finds.  The patches cover the cases of applyJsonPatch that a   *)
(* generated proposal rarely holds: a missing snippet, anchor or find, an  *)
(* anchor or find that occurs twice, a replacement with "$" patterns.      *)
(* writeWithBackup is two file-system calls, and the state between them    *)
(* (the backup copied, the target not yet written) is a state of its own.  *)
(***************************************************************************)
EngineContents == { <<"a", "b">>, <<"b", "a", "b", "a">>, <<"a">>, <<>> }

EnginePatches ==
  { Patch(T_x, "append", <<"c">>, <<>>, <<>>, <<>>),
    Patch(T_x, "append", <<>>, <<>>, <<>>, <<>>),
    Patch(T_new, "append", <<"c">>, <<>>, <<>>, <<>>),
    Patch(T_new, "create", <<"c", "d">>, <<>>, <<>>, <<>>),
    Patch(T_new, "create", <<>>, <<>>, <<>>, <<>>),
    Patch(T_x, "create", <<"c">>, <<>>, <<>>, <<>>),
    Patch(T_x, "insertAfter", <<"c">>, <<"a">>, <<>>, <<>>),
    Patch(T_x, "insertAfter", <<"c">>, <<"a", "b">>, <<>>, <<>>),
    Patch(T_x, "insertAfter", <<"c">>, <<"z">>, <<>>, <<>>),
    Patch(T_x, "insertAfter", <<"c">>, <<>>, <<>>, <<>>),
    Patch(T_new, "insertAfter", <<"c">>, <<"a">>, <<>>, <<>>),
    Patch(T_x, "replace", <<>>, <<>>, <<"a">>, <<"c">>),
    Patch(T_x, "replace", <<>>, <<>>, <<"a">>, <<>>),
    Patch(T_x, "replace", <<>>, <<>>, <<"z">>, <<"c">>),
    Patch(T_x, "replace", <<>>, <<>>, <<"a">>, <<"a">>),
    Patch(T_x, "replace", <<>>, <<>>, <<>>, <<"c">>),
    Patch(T_x, "replace", <<>>, <<>>, <<"a">>, <<"$", "&">>),
    Patch(T_x, "replace", <<>>, <<>>, <<"a">>, <<"$", "$">>),
    Patch(T_new, "replace", <<>>, <<>>, <<"a">>, <<"c">>),
    Patch(T_x, "delete", <<>>, <<>>, <<>>, <<>>) }

InitEngine ==
  /\ files \in { [InitFiles EXCEPT ![AbsOf(T_x)].data = c] : c \in EngineContents }
  /\ backupFiles = <<>>
  /\ store \in { <<NewRecord(1, 0, <<p>>, <<>>)>> : p \in EnginePatches }
  /\ clock = 0
  /\ calls = [s \in Slots |-> IdleCall]
  /\ last = NoOutcome
  /\ approved = NoApprove
  /\ nops = 0
  /\ overlap = NoOverlap

\* applyJsonPatch that throws, or creates: one stretch without a backup
PatchEnded ==
  /\ AllIdle
  /\ nops < MaxOps
  /\ LET patch == store[1].patches[1]
         r == applyJsonPatch(patch, files, backupFiles, clock + 1)
     IN /\ r.thrown \/ r.backupPath = NoBackup
        /\ files' = r.fs
        /\ backupFiles' = r.bk
        /\ last' = (Outcome("patch", 1, IF r.thrown THEN 500 ELSE 200, nops + 1, files,
                           backupFiles, store, <<>>, IF r.thrown THEN 1 ELSE 0, r.err))
  /\ clock' = clock + 1
  /\ nops' = nops + 1
  /\ UNCHANGED <<store, calls, approved, overlap>>

\* applyJsonPatch up to fs.copyFileSync(absPath, backupPath) in
\* writeWithBackup: the checks have passed, the backup is written
PatchBackedUp ==
  /\ AllIdle
  /\ nops < MaxOps
  /\ LET patch == store[1].patches[1]
         r == applyJsonPatch(patch, files, backupFiles, clock + 1)
     IN /\ ~r.thrown /\ r.backupPath # NoBackup
        /\ backupFiles' = r.bk
        /\ calls' = [calls EXCEPT ![1] =
              [IdleCall EXCEPT !.op = "patch", !.id = 1, !.record = store[1],
                               !.backups = <<[target |-> r.target,
                                              backupPath |-> r.backupPath]>>,
                               !.preFiles = files, !.preBackups = backupFiles,
                               !.preStore = store]]
  /\ clock' = clock + 1
  /\ nops' = nops + 1
  /\ UNCHANGED <<files, store, last, approved, overlap>>

\* fs.writeFileSync(absPath, nextContent) and the return
PatchWritten ==
  /\ calls[1].op = "patch"
  /\ LET c == calls[1]
         r == applyJsonPatch(c.record.patches[1], files, c.preBackups, clock)
     IN /\ files' = r.fs
        /\ last' = (Outcome("patch", 1, 200, nops, c.preFiles, c.preBackups,
                           c.preStore, c.backups, 0, ""))
  /\ calls' = [calls EXCEPT ![1] = IdleCall]
  /\ UNCHANGED <<backupFiles, store, clock, approved, nops, overlap>>

NextEngine == PatchEnded \/ PatchBackedUp \/ PatchWritten

SpecEngine == InitEngine /\ [][NextEngine]_vars

(***************************************************************************)
(* The list handler over the proposal directories that propose can leave:  *)
(* up to MaxListed records, their createdAt in the order they were         *)
(* proposed, two proposals of the same millisecond sharing one.            *)
(***************************************************************************)
Stamps(n) == { t \in [1..n -> 1..MaxStamp] : \A i \in 1..(n - 1) : t[i] <= t[i + 1] }

ListedStores ==
  UNION { { [i \in 1..n |->
               NewRecord(i, t[i], <<Patch(T_x, "append", <<"c">>, <<>>, <<>>, <<>>)>>, <<>>)]
            : t \in Stamps(n) } : n \in 0..MaxListed }

InitList ==
  /\ files = InitFiles
  /\ backupFiles = <<>>
  /\ store \in ListedStores
  /\ clock = (IF store = <<>> THEN 0 ELSE store[Len(store)].createdAt)
  /\ calls = [s \in Slots |-> IdleCall]
  /\ last = NoOutcome
  /\ approved = NoApprove
  /\ nops = Len(store)
  /\ overlap = NoOverlap

ListRequest ==
  /\ AllIdle
  /\ \E order \in DirOrders(Len(store)) : List(order)
  /\ UNCHANGED overlap

NextList == ListRequest

SpecList == InitList /\ [][NextList]_vars

(***************************************************************************)
(* Requests one at a time, with the unexpected errors: a file-system call  *)
(* of a later patch that throws, a test step whose runCmd rejects.         *)
(***************************************************************************)
ProposeFaultRequest ==
  /\ AllIdle
  /\ \E pl \in ShortLists, tl \in FaultTestLists : Propose(pl, tl, TRUE)
  /\ UNCHANGED overlap

\* the step has a cmd: exec starts the command and its callback runs
ValidateResumeRan ==
  /\ \E s \in Slots, ok \in BOOLEAN :
       /\ calls[s].op = "validate"
       /\ Head(calls[s].steps) # BadStep
       /\ ValidateStep(s, ok)
  /\ UNCHANGED overlap

ValidateResumeThrew ==
  (\E s \in Slots : ValidateStepThrows(s)) /\ UNCHANGED overlap

ValidateIOErrorRequest ==
  /\ AllIdle
  /\ \E s \in Slots, id \in Ids, k \in 2..MaxPatches :
       \E ticks \in SeqTicks(k - 1) : ValidateIOError(s, id, ticks, k)
  /\ UNCHANGED overlap

ApproveIOErrorRequest ==
  /\ AllIdle
  /\ \E s \in Slots, id \in Ids, k \in 2..MaxPatches :
       \E ticks \in SeqTicks(k - 1) : ApproveIOError(s, id, ticks, k)
  /\ UNCHANGED overlap

NextFault ==
  \/ ProposeFaultRequest
  \/ ValidateRequest
  \/ ValidateResumeRan
  \/ ValidateResumeThrew
  \/ ValidateIOErrorRequest
  \/ ApproveRequest
  \/ ApproveResume
  \/ ApproveIOErrorRequest

SpecFault == Init /\ [][NextFault]_vars

(***************************************************************************)
(* Properties.                                                             *)
(***************************************************************************)
\* the response of handler op is the last thing that happened
JustReturned(op) == AllIdle /\ last.op = op /\ last.n = nops

\* the stored record the last request was about, as it was when it began
PreRecord == last.preStore[last.id]

\* the files the patches of the last request's proposal resolve to
Touched == { AbsOf(PreRecord.patches[i].target) : i \in 1..Len(PreRecord.patches) }

FilesAsBefore == \A p \in Touched : files[p] = last.preFiles[p]

AppliedStatuses == {"applied", "applied_with_build_errors"}

Rank(status) ==
  CASE status = "proposed" -> 0
    [] status \in {"validated", "failed_validation"} -> 1
    [] status \in AppliedStatuses -> 2
    [] status = "rolled_back" -> 3

\* C1: when validate returns (tests passed, tests failed, or a patch failed
\* to apply), every file its proposal targets has the existence and the
\* content it had when validate was called.
C1_ValidateSideEffectFree ==
  (JustReturned("validate") /\ last.code \in {200, 422}) => FilesAsBefore

\* C2: when patch k > 1 of an approve call fails, every file the earlier
\* patches of the call mutated is back to its pre-call content when the
\* error is returned.
C2_ApproveRevertsOnFailure ==
  (JustReturned("approve") /\ last.code = 500 /\ last.failedAt > 1) => FilesAsBefore

\* C3: an approve on a proposal that is already applied (no rollback since)
\* is rejected, mutates no target file and leaves the apply record alone.
C3_ApproveGuard ==
  (JustReturned("approve") /\ last.code # 404 /\ PreRecord.status \in AppliedStatuses)
    => /\ last.code # 200
       /\ FilesAsBefore
       /\ store[last.id].apply = PreRecord.apply

\* C4: when any patch of the proposal targets a path the write fence
\* refuses, validate and approve are rejected and no file targeted by the
\* batch has been created or modified when the call returns.
C4_WriteFenceAtomic ==
  ( /\ JustReturned("validate") \/ JustReturned("approve")
    /\ last.code # 404
    /\ \E i \in 1..Len(PreRecord.patches) : ~assertAllowed(PreRecord.patches[i].target) )
    => last.code # 200 /\ FilesAsBefore

\* C5: after a rollback that directly follows the successful approve of the
\* same proposal, every file the proposal targets is as it was immediately
\* before that approve.
C5_RollbackRoundTrip ==
  ( /\ JustReturned("rollback") /\ last.code = 200
    /\ approved.id = last.id /\ approved.n + 1 = nops )
    => \A p \in Touched : files[p] = approved.preFiles[p]

\* C6: no step moves the stored status of a proposal backwards along
\* proposed -> {validated, failed_validation} ->
\* {applied, applied_with_build_errors} -> rolled_back.
C6_StatusOnlyForward ==
  [][\A id \in 1..Len(store) :
       Rank(store'[id].status) >= Rank(store[id].status)]_vars

\* C7: an approve or a rollback on a proposal whose status is rolled_back is
\* rejected, leaves the status rolled_back and mutates no target file.
C7_RolledBackTerminal ==
  ( /\ JustReturned("approve") \/ JustReturned("rollback")
    /\ last.code # 404
    /\ PreRecord.status = "rolled_back" )
    => /\ last.code # 200
       /\ store[last.id].status = "rolled_back"
       /\ FilesAsBefore

\* C8: a rollback on a proposal that was never approved (it carries no apply
\* record; its status is proposed, validated or failed_validation) fails
\* with an error, changes no file and leaves the store as it was.
C8_RollbackRequiresApply ==
  ( /\ JustReturned("rollback") /\ last.code # 404
    /\ ~PreRecord.apply.set
    /\ PreRecord.status \in {"proposed", "validated", "failed_validation"} )
    => /\ last.code = 400
       /\ files = last.preFiles
       /\ backupFiles = last.preBackups
       /\ store = last.preStore

\* C8 witness: a rollback was refused on a proposal that validate had
\* already moved to validated.
C8_Witness ==
  /\ JustReturned("rollback") /\ last.code = 400
  /\ PreRecord.status = "validated"
  /\ store[last.id].status = "validated"

\* the first backup (in the order taken) of the file that backup i saved
FirstBackupOf(backups, i) ==
  backups[CHOOSE j \in 1..i :
            /\ AbsOf(backups[j].target) = AbsOf(backups[i].target)
            /\ \A k \in 1..(j - 1) :
                 AbsOf(backups[k].target) # AbsOf(backups[i].target)]

\* C9: when a patch fails to apply during validate, the answer is the
\* apply-failure error (422), the backups taken in the call have been
\* restored latest-first (every backed-up file ends as the earliest backup
\* the call took of it) and the stored record is exactly as before the call.
C9_ValidateFailureRestores ==
  (JustReturned("validate") /\ last.failedAt > 0)
    => /\ last.code = 422
       /\ store = last.preStore
       /\ \A i \in 1..Len(last.backups) :
            files[AbsOf(last.backups[i].target)] =
              [ex |-> TRUE,
               data |-> backupFiles[FirstBackupOf(last.backups, i).backupPath]]

\* C9 witness: the third patch of a validate failed after two backups of the
\* same file, taken at different times, had been restored; the file is back
\* to its content and the record is the one stored before.
C9_Witness ==
  /\ JustReturned("validate") /\ last.code = 422 /\ last.failedAt = 3
  /\ Len(last.backups) = 2
  /\ AbsOf(last.backups[1].target) = AbsOf(last.backups[2].target)
  /\ last.backups[1].backupPath # last.backups[2].backupPath
  /\ backupFiles[last.backups[1].backupPath] # backupFiles[last.backups[2].backupPath]
  /\ FilesAsBefore
  /\ store[last.id] = PreRecord

\* C10: the only files ever created or overwritten are files under addons/
\* (or core.json), a target's file being what joining it to the working
\* directory resolves to.
C10_WriteFenceContainment ==
  \A p \in FilePaths : files[p] # InitFiles[p] => (UnderAddons(p) \/ p = CoreJson)

\* the calls of the last busy period are validate calls on one-patch
\* proposals that create no file, at least two of them, and all have returned
OverlappingValidatesReturned ==
  /\ AllIdle
  /\ overlap.count >= 2
  /\ overlap.onlyValidate
  /\ last.op = "validate" /\ last.code = 200 /\ last.n = nops
  /\ \A id \in 1..Len(store) :
       /\ Len(store[id].patches) = 1
       /\ store[id].patches[1].action # "create"

\* C11: validate calls on the same target file are serialized: under every
\* interleaving at the awaits, once two overlapping validate calls have both
\* returned every file holds the bytes it held before either of them began.
C11_OverlappingValidatesRestore ==
  OverlappingValidatesReturned => \A p \in FilePaths : files[p] = overlap.base[p]

\* C12: one writer per proposal id: a handler that writes the record when it
\* resumes writes the record it would read now, not a copy that another
\* handler has replaced in the store since it was read.
C12_NoStaleWrite ==
  [][\A s \in Slots :
       (calls[s].op # "idle" /\ calls'[s].op = "idle" /\ store' # store)
         => calls[s].record = store[calls[s].id]]_vars

\* the last request was a validate or an approve that an unexpected error
\* ended after its patch loop had written at least one file
UnexpectedErrorReturned ==
  /\ AllIdle
  /\ last.op \in {"validate", "approve"}
  /\ last.n = nops
  /\ last.code \in {422, 500}
  /\ last.err \in {"EIO", "ERR_INVALID_ARG_TYPE"}
  /\ Len(last.backups) >= 1

\* C13: revert-so-far is uniform: when an unexpected error ends a validate or
\* an approve after at least one patch was written, every file the call
\* changed holds its content from before the call when the failure is
\* returned.
C13_RevertOnUnexpectedError == UnexpectedErrorReturned => FilesAsBefore

\* C14: a hung test or build command does not wedge the pipeline: every
\* validate, approve or rollback call that was taken eventually returns,
\* also when a command it spawned never exits.
C14_EveryCallReturns ==
  \A s \in Slots : (calls[s].op # "idle") ~> (calls[s].op = "idle")

\* C15: backup paths are collision-free: every backup a call takes gets a
\* backupPath that differs from the path of every backup taken before it, in
\* the same call or in an earlier one, so no backup file is overwritten.
C15_BackupPathsDistinct ==
  /\ \A i, j \in 1..Len(last.backups) :
       i # j => last.backups[i].backupPath # last.backups[j].backupPath
  /\ \A i \in 1..Len(last.backups) :
       last.backups[i].backupPath \notin DOMAIN last.preBackups

RecognizedActions == {"create", "append", "insertAfter", "replace"}

\* C16: every persisted proposal holds only patches with a recognized action
\* (create, append, insertAfter, replace) and a non-empty target.
C16_PersistedPatchesRecognized ==
  \A id \in 1..Len(store) :
    \A i \in 1..Len(store[id].patches) :
      /\ store[id].patches[i].action \in RecognizedActions
      /\ store[id].patches[i].target # <<>>

\* the steps a validate call of a proposal with these tests has to run
ExpectedSteps(tests) == IF tests = <<>> THEN <<BuildStep>> ELSE tests

\* the last request was a validate whose patches all applied and whose
\* steps have all reported
ValidateCompleted == JustReturned("validate") /\ last.code = 200

EveryStepPassed(results) == \A i \in 1..Len(results) : results[i].ok

\* C17: when every patch of a validate call applies, the stored status is
\* validated exactly when every test step passed and failed_validation
\* otherwise; the stored validation record holds one result per step, in
\* step order, and its allOk flag equals that condition.
C17_ValidationOutcome ==
  ValidateCompleted =>
    LET record == store[last.id]
        v == record.validation
        expected == ExpectedSteps(PreRecord.tests)
    IN /\ v.set
       /\ Len(v.results) = Len(expected)
       /\ \A i \in 1..Len(expected) : v.results[i].step = expected[i]
       /\ v.allOk <=> EveryStepPassed(v.results)
       /\ record.status = "validated" <=> EveryStepPassed(v.results)
       /\ record.status = "failed_validation" <=> ~EveryStepPassed(v.results)

\* a validate of a proposal with two tests, the first failed, the second passed
C17_Witness ==
  /\ ValidateCompleted
  /\ Len(PreRecord.tests) = 2
  /\ ~store[last.id].validation.results[1].ok
  /\ store[last.id].validation.results[2].ok
  /\ store[last.id].status = "failed_validation"

\* the files after the patches of the last request's proposal, applied in
\* order to the files the request found
PatchedFiles ==
  PatchLoop(PreRecord.patches, [i \in 1..Len(PreRecord.patches) |-> TRUE], 1,
            LoopStart(last.preFiles, last.preBackups, 0)).fs

NonCreatePatches == SelectSeq(PreRecord.patches, LAMBDA p : p.action # "create")

ApproveCompleted == JustReturned("approve") /\ last.code = 200

\* C18: when every patch of an approve call applies, the patched content
\* stays on disk whatever the build returns, the status is applied exactly
\* when the build passed and applied_with_build_errors otherwise, and the
\* apply record lists exactly the backups taken during this call: one
\* {file, backup} entry per non-create patch, in patch order.
C18_ApproveOutcome ==
  ApproveCompleted =>
    LET record == store[last.id]
        a == record.apply
    IN /\ \A p \in FilePaths : files[p] = PatchedFiles[p]
       /\ a.set
       /\ record.status = "applied" <=> a.buildOk
       /\ record.status = "applied_with_build_errors" <=> ~a.buildOk
       /\ Len(a.backups) = Len(NonCreatePatches)
       /\ \A i \in 1..Len(NonCreatePatches) :
            /\ a.backups[i].file = NonCreatePatches[i].target
            /\ a.backups[i].backup = last.backups[i].backupPath
            /\ a.backups[i].backup \in DOMAIN backupFiles
            /\ a.backups[i].backup \notin DOMAIN last.preBackups

\* an approve of a create patch and an overwriting patch whose build failed
C18_Witness ==
  /\ ApproveCompleted
  /\ ~store[last.id].apply.buildOk
  /\ Len(PreRecord.patches) = 2
  /\ Len(NonCreatePatches) = 1
  /\ PreRecord.patches[1].action = "create"
  /\ \E p \in FilePaths : files[p] # last.preFiles[p]

\* C19: a validation run executes every step exactly once, in order: a
\* failing step does not stop the later ones, allOk is the conjunction of
\* the step results, and a proposal without tests runs exactly the one
\* built-in build step.
C19_EveryStepRunsOnce ==
  /\ \A s \in Slots :
       calls[s].op = "validate" =>
         LET c == calls[s] IN
         /\ c.steps # <<>>
         /\ [i \in 1..Len(c.results) |-> c.results[i].step] \o c.steps
              = ExpectedSteps(c.record.tests)
         /\ c.allOk <=> EveryStepPassed(c.results)
  /\ ValidateCompleted =>
       LET results == store[last.id].validation.results IN
       /\ [i \in 1..Len(results) |-> results[i].step] = ExpectedSteps(PreRecord.tests)
       /\ PreRecord.tests = <<>> => Len(results) = 1 /\ results[1].step = BuildStep
       /\ store[last.id].validation.allOk <=> EveryStepPassed(results)

\* a run whose first step failed and whose second step ran all the same
C19_Witness ==
  /\ \E s \in Slots :
       /\ calls[s].op = "validate"
       /\ Len(calls[s].results) = 1
       /\ ~calls[s].results[1].ok
       /\ calls[s].steps = <<2>>
       /\ ~calls[s].allOk

\* C20: list returns every persisted proposal exactly once, newest first:
\* of two adjacent items the earlier one's createdAt is greater than or
\* equal to the later one's, also when several proposals share a createdAt.
C20_ListNewestFirst ==
  last.op = "list" =>
    /\ Len(last.items) = Len(store)
    /\ \A id \in 1..Len(store) :
         \E i \in 1..Len(last.items) :
           /\ last.items[i] = store[id]
           /\ \A j \in 1..Len(last.items) : last.items[j].id = id => j = i
    /\ \A i \in 1..(Len(last.items) - 1) :
         last.items[i].createdAt >= last.items[i + 1].createdAt

\* a list of four proposals of three different milliseconds, the two in the
\* middle sharing theirs
C20_Witness ==
  /\ last.op = "list"
  /\ Len(last.items) = 4
  /\ last.items[1].createdAt > last.items[2].createdAt
  /\ last.items[2].createdAt = last.items[3].createdAt
  /\ last.items[3].createdAt > last.items[4].createdAt
  /\ last.items[2].id < last.items[3].id

\* C21: approve is accepted only for a proposal whose status is proposed or
\* validated: an approve on a proposal whose status is failed_validation is
\* rejected and changes no file (stated for the proposals of one patch, where
\* no earlier patch of the same call can have written).
C21_ApproveRejectsFailedValidation ==
  (JustReturned("approve") /\ last.code # 404
     /\ PreRecord.status = "failed_validation"
     /\ Len(PreRecord.patches) = 1)
    => /\ last.code # 200
       /\ \A p \in FilePaths : files[p] = last.preFiles[p]

\* applyJsonPatch has just been called on the one patch of the store
PatchReturned == AllIdle /\ last.op = "patch" /\ last.n = nops

ThePatch == store[1].patches[1]

TheTarget == AbsOf(ThePatch.target)

PreconditionErrors ==
  {"File not found", "File already exists", "Anchor not found",
   "No match for find", "Unsupported action"}

\* nothing on disk differs from what the last call found
NothingChanged == files = last.preFiles /\ backupFiles = last.preBackups

\* the last request was a validate or an approve of a one-patch proposal
\* whose patch failed a precondition of the patch engine
OnePatchCallFailed ==
  /\ AllIdle
  /\ last.op \in {"validate", "approve"}
  /\ last.n = nops
  /\ last.code \in {422, 500}
  /\ last.err \in PreconditionErrors
  /\ Len(PreRecord.patches) = 1

\* C22: a patch that fails a precondition of the patch engine (target
\* absent, target present for create, anchor not found, no match for find,
\* unsupported action) changes nothing: the target keeps its content and no
\* backup file is created; validate and approve of a one-patch proposal
\* fail and leave the stored record, its status with it, as it was.
C22_FailedPatchChangesNothing ==
  /\ \A p \in PatchCatalogue \cup EnginePatches :
       LET r == applyJsonPatch(p, files, backupFiles, clock + 1) IN
       (r.thrown /\ r.err \in PreconditionErrors)
         => r.fs = files /\ r.bk = backupFiles
  /\ OnePatchCallFailed =>
       /\ NothingChanged
       /\ store = last.preStore
       /\ last.code = (IF last.op = "validate" THEN 422 ELSE 500)

\* an approve of a fresh one-patch proposal whose find does not occur
C22_Witness ==
  /\ OnePatchCallFailed
  /\ last.op = "approve"
  /\ last.err = "No match for find"
  /\ store[last.id].status = "proposed"
  /\ \E p \in EnginePatches :
       LET r == applyJsonPatch(p, files, backupFiles, clock + 1) IN
       r.thrown /\ r.err = "Anchor not found"

\* the backup at path holds exactly the content the file abs had in fs
BackupHolds(path, fs, abs) ==
  path \in DOMAIN backupFiles /\ backupFiles[path] = fs[abs].data

\* C23: backup, then overwrite: in every append, insertAfter and replace the
\* copy of the target's content to the backup path is complete before the
\* target is overwritten.  Between the two calls the target still holds its
\* content and the backup holds the same; after the write the backup holds
\* the content from before the write.
C23_BackupBeforeOverwrite ==
  /\ \A s \in Slots :
       calls[s].op = "patch" =>
         LET b == calls[s].backups[1]
             abs == AbsOf(b.target)
         IN /\ files[abs] = calls[s].preFiles[abs]
            /\ BackupHolds(b.backupPath, calls[s].preFiles, abs)
  /\ (PatchReturned /\ last.code = 200 /\ ThePatch.action # "create") =>
       /\ Len(last.backups) = 1
       /\ BackupHolds(last.backups[1].backupPath, last.preFiles, TheTarget)

\* the second write of a patch: copied to its backup, not yet written
C23_Witness ==
  /\ calls[1].op = "patch"
  /\ nops = 2
  /\ files[TheTarget] # InitFiles[TheTarget]
  /\ Cardinality(DOMAIN backupFiles) = 2

\* every file but the target is as the last call found it
OthersUnchanged == \A p \in FilePaths \ {TheTarget} : files[p] = last.preFiles[p]

PreContent == last.preFiles[TheTarget].data

\* the 0-based offsets at which sub occurs in s
Occurrences(s, sub) ==
  { i \in 0..(Len(s) - Len(sub)) : SubSeq(s, i + 1, i + Len(sub)) = sub }

FirstOccurrence(s, sub) ==
  CHOOSE i \in Occurrences(s, sub) : \A j \in Occurrences(s, sub) : i <= j

\* the last call overwrote the target with content and its one backup holds
\* the content from before
OverwroteWith(content) ==
  /\ last.code = 200
  /\ files[TheTarget] = [ex |-> TRUE, data |-> content]
  /\ OthersUnchanged
  /\ Len(last.backups) = 1
  /\ BackupHolds(last.backups[1].backupPath, last.preFiles, TheTarget)

\* C24: a create patch fails when the target exists and leaves the file
\* untouched; otherwise it writes the snippet verbatim as the whole content
\* of the new file and yields no backup record, so that the patch loop of
\* validate and approve lists no backup for the created file.
C24_CreateOutcome ==
  /\ (PatchReturned /\ ThePatch.action = "create") =>
       IF last.preFiles[TheTarget].ex
       THEN last.code = 500 /\ last.err = "File already exists" /\ NothingChanged
       ELSE /\ last.code = 200
            /\ files[TheTarget] = [ex |-> TRUE, data |-> ThePatch.snippet]
            /\ OthersUnchanged
            /\ last.backups = <<>>
            /\ backupFiles = last.preBackups
  /\ \A p \in EnginePatches :
       p.action = "create" =>
         PatchLoop(<<p>>, <<TRUE>>, 1, LoopStart(files, backupFiles, clock)).backups = <<>>

\* a create of a file with a two-character snippet, and nothing backed up
C24_Witness ==
  /\ PatchReturned
  /\ ThePatch.action = "create"
  /\ last.code = 200
  /\ ~last.preFiles[TheTarget].ex
  /\ files[TheTarget].data = <<"c", "d">>
  /\ DOMAIN backupFiles = {}

\* C25: an insertAfter patch fails when the target is absent or the anchor
\* does not occur in the content, a missing or empty anchor being no match;
\* otherwise the new content is the content with the snippet spliced in
\* right after the first occurrence of the anchor (behind the newline the
\* engine puts before every snippet) and the old content is backed up.
C25_InsertAfterOutcome ==
  (PatchReturned /\ ThePatch.action = "insertAfter") =>
    IF \/ ~last.preFiles[TheTarget].ex
       \/ ThePatch.anchor = <<>>
       \/ Occurrences(PreContent, ThePatch.anchor) = {}
    THEN last.code = 500 /\ NothingChanged
    ELSE LET pos == FirstOccurrence(PreContent, ThePatch.anchor) + Len(ThePatch.anchor)
         IN OverwroteWith(SubSeq(PreContent, 1, pos) \o <<NL>> \o ThePatch.snippet
                            \o SubSeq(PreContent, pos + 1, Len(PreContent)))

\* C26: a replace patch fails exactly when the target is absent or the
\* substitution would leave the content identical (find does not occur, or
\* find equals replace); otherwise it overwrites the target with the content
\* in which the first occurrence of find is replaced by replace, all other
\* text unchanged, after backing up the old content.  Stated for the patches
\* that carry a find.
C26_ReplaceOutcome ==
  (PatchReturned /\ ThePatch.action = "replace" /\ ThePatch.find # <<>>) =>
    IF \/ ~last.preFiles[TheTarget].ex
       \/ Occurrences(PreContent, ThePatch.find) = {}
       \/ ThePatch.find = ThePatch.replace
    THEN last.code = 500 /\ NothingChanged
    ELSE LET idx == FirstOccurrence(PreContent, ThePatch.find)
         IN OverwroteWith(SubSeq(PreContent, 1, idx) \o ThePatch.replace
                            \o SubSeq(PreContent, idx + Len(ThePatch.find) + 1,
                                      Len(PreContent)))

\* the store holds one proposal, of one append patch on a file that exists
OneAppendProposal ==
  /\ Len(store) = 1
  /\ Len(store[1].patches) = 1
  /\ store[1].patches[1].action = "append"
  /\ InitFiles[AbsOf(store[1].patches[1].target)].ex

AppendTarget == AbsOf(store[1].patches[1].target)

Appended(c) == c \o <<NL>> \o store[1].patches[1].snippet

\* C27: an append patch on an existing file with content c and snippet s
\* leaves the file with exactly c + "\n" + s and a backup holding exactly c;
\* in the sequence validate, approve, rollback on a one-append proposal the
\* file is c after validate, c + "\n" + s after approve and c again after
\* rollback.
C27_AppendRoundTrip ==
  OneAppendProposal =>
    LET c == InitFiles[AppendTarget].data IN
    /\ (JustReturned("approve") /\ last.code = 200) =>
         /\ files[AppendTarget].data = Appended(last.preFiles[AppendTarget].data)
         /\ Len(store[1].apply.backups) = 1
         /\ BackupHolds(store[1].apply.backups[1].backup, last.preFiles, AppendTarget)
    /\ (JustReturned("validate") /\ last.code = 200 /\ nops = 2) =>
         files[AppendTarget].data = c
    /\ (JustReturned("approve") /\ last.code = 200 /\ nops = 3
          /\ store[1].validation.set) =>
         files[AppendTarget].data = Appended(c)
    /\ (JustReturned("rollback") /\ last.code = 200 /\ nops = 4
          /\ approved.n = 3 /\ store[1].validation.set) =>
         files[AppendTarget].data = c

\* propose, validate, approve, rollback of an append to addons/x.txt
C27_Witness ==
  /\ OneAppendProposal
  /\ AppendTarget = AbsOf(T_x)
  /\ JustReturned("rollback")
  /\ last.code = 200
  /\ nops = 4
  /\ approved.n = 3
  /\ store[1].validation.set
  /\ last.preFiles[AppendTarget].data = Appended(InitFiles[AppendTarget].data)

\* C28: no lifecycle operation deletes a proposal record, and validate,
\* approve and rollback leave a record's id, createdAt, patch list and tests
\* as propose stored them: they change only the status and the validation,
\* apply and rollback sub-records.
C28_RecordFrame ==
  [][/\ Len(store') >= Len(store)
     /\ \A id \in 1..Len(store) :
          /\ store'[id].id = store[id].id
          /\ store'[id].createdAt = store[id].createdAt
          /\ store'[id].patches = store[id].patches
          /\ store'[id].tests = store[id].tests]_vars

\* a record that validate, approve and rollback have all written
C28_Witness ==
  /\ Len(store) = 1
  /\ store[1].validation.set
  /\ store[1].apply.set
  /\ store[1].rollback.set
  /\ store[1].status = "rolled_back"
  /\ store[1].id = 1
  /\ Len(store[1].patches) = 2

\* C29: validation predicts approval: when validate has applied every patch
\* of a proposal and approve of the same proposal is the next request,
\* approve applies every patch too, for every mix of patch actions.
C29_ValidationPredictsApproval ==
  (JustReturned("approve") /\ last.code # 404 /\ nops = 3
     /\ PreRecord.validation.set)
    => last.code = 200

\* the entries of the record's apply.backups that restore file p and whose
\* backup file existed when the last request began
PresentBackups(p) ==
  { i \in 1..Len(PreRecord.apply.backups) :
      /\ AbsOf(PreRecord.apply.backups[i].file) = p
      /\ PreRecord.apply.backups[i].backup \in DOMAIN last.preBackups }

Latest(S) == CHOOSE i \in S : \A j \in S : j <= i

\* C30: rollback on a proposal that carries an apply record sets the status
\* to rolled_back whatever the build returns and whether or not the recorded
\* backup files still exist: an entry whose backup file is missing is skipped
\* without error and its target is left as it is.
C30_RollbackSkipsMissingBackups ==
  (JustReturned("rollback") /\ last.code # 404 /\ PreRecord.apply.set) =>
    /\ last.code = 200
    /\ store[last.id].status = "rolled_back"
    /\ store[last.id].rollback.set
    /\ \A p \in FilePaths :
         IF PresentBackups(p) = {}
         THEN files[p] = last.preFiles[p]
         ELSE files[p].data =
                last.preBackups[PreRecord.apply.backups[Latest(PresentBackups(p))].backup]

\* a rollback after a failed build that found none of its two backups
C30_Witness ==
  /\ JustReturned("rollback")
  /\ last.code = 200
  /\ Len(PreRecord.apply.backups) = 2
  /\ \A i \in 1..2 : PreRecord.apply.backups[i].backup \notin DOMAIN last.preBackups
  /\ ~store[last.id].rollback.buildOk
  /\ files = last.preFiles
  /\ files # InitFiles

====
